---- MODULE Spec2Model ----
(***************************************************************************)
(* Model of the PGAGI hiring-assistant WebSocket server:                   *)
(*   src/server/main.py         ConnectionManager, websocket_endpoint      *)
(*   src/server/llms/gemini.py  get_next_bot_response (the module that     *)
(*                              main.py imports)                           *)
(*                                                                         *)
(* A text is a sequence of one-character strings, so that lower() and      *)
(* strip() are computed character by character.  The long fixed messages   *)
(* of the program are never transformed; each is one opaque symbol.        *)
(***************************************************************************)
EXTENDS Integers, Sequences, FiniteSets, TLC

\* ------------------------------------------------------------------ bounds
\* Total number of inbound text frames delivered over all connections.
MaxMsgs == 3

\* The websocket objects (the keys of active_connections).
Conns == {"ws1", "ws2"}

\* ------------------------------------------------------------------- text
None == "None"

\* Characters removed by str.strip().
Whitespace == {" ", "\n", "\t"}

UpperCase == <<"A", "B", "E", "I", "L", "Q", "T", "U", "X", "Y">>
LowerCase == <<"a", "b", "e", "i", "l", "q", "t", "u", "x", "y">>

\* str.lower() on one character.
LowerChar(ch) ==
    IF \E i \in 1..Len(UpperCase) : UpperCase[i] = ch
    THEN LowerCase[CHOOSE i \in 1..Len(UpperCase) : UpperCase[i] = ch]
    ELSE ch

\* str.lower()
Lower(s) == [i \in 1..Len(s) |-> LowerChar(s[i])]

RECURSIVE LStrip(_)
LStrip(s) ==
    IF s # <<>> /\ Head(s) \in Whitespace THEN LStrip(Tail(s)) ELSE s

RECURSIVE RStrip(_)
RStrip(s) ==
    IF s # <<>> /\ s[Len(s)] \in Whitespace
    THEN RStrip(SubSeq(s, 1, Len(s) - 1))
    ELSE s

\* str.strip(), with its default argument
Strip(s) == RStrip(LStrip(s))

\* -------------------------------------------------------- fixed messages
initial_greeting == <<"Welcome to the PGAGI Hiring Assistant! ... To start, could you tell me your full name?">>

FAREWELL == <<"Thank you for your time. Ending conversation.">>

NO_RESPONSE == <<"I'm sorry, I couldn't generate a response.">>

TECHNICAL_ISSUE == <<"I'm sorry, I encountered a technical issue. Could you please rephrase that?">>

HELLO == <<"H", "e", "l", "l", "o">>

EXIT_KEYWORDS ==
    { <<"e", "x", "i", "t">>,
      <<"q", "u", "i", "t">>,
      <<"b", "y", "e">>,
      <<"g", "o", "o", "d", "b", "y", "e">> }

REQUIRED_FIELDS ==
    << "Full Name", "Email Address", "Phone Number", "Years of Experience",
       "Desired Position(s)", "Current Location", "Tech Stack" >>

Range(f) == {f[i] : i \in DOMAIN f}

\* ------------------------------------------------- inputs of the program
\* Inbound text frames a client may send.
M_exit     == <<"e", "x", "i", "t">>
M_Bye      == <<" ", "B", "y", "e", " ">>
M_QUIT     == <<"Q", "U", "I", "T", "\n">>
M_goodbye_friend ==
    <<"g", "o", "o", "d", "b", "y", "e", " ", "f", "r", "i", "e", "n", "d">>
M_empty    == <<>>

Msgs == {M_exit, M_Bye, M_QUIT, M_goodbye_friend, M_empty}

\* One element of the provider's response stream: chunk.text is a text, or
\* the chunk carries no text (attribute absent or None).
Chunk(t) == [has_text |-> TRUE, text |-> t]
NoTextChunk == [has_text |-> FALSE, text |-> <<>>]

ChunkSeqs ==
    { <<>>,
      <<NoTextChunk, Chunk(<<>>)>>,
      <<Chunk(<<" ">>), Chunk(<<"\n">>)>>,
      <<Chunk(<<" ", "H">>), NoTextChunk, Chunk(<<"i", " ">>)>> }

\* What the provider does on one call: the stage at which it raises
\* ("none": the stream completes) and the chunks it yields before that.
Stages == {"client", "open", "stream", "none"}

ProviderBehaviours ==
    [stage : {"none"}, chunks : ChunkSeqs]
      \cup [stage : {"stream"}, chunks : {<<Chunk(<<" ", "H">>)>>}]
      \cup [stage : {"client", "open"}, chunks : {<<>>}]

\* ---------------------------------------------------------------- session
\* One history entry: {'role': role, 'parts': [{'text': text}]}
Turn(role, text) == [role |-> role, parts |-> <<[text |-> text]>>]

TurnText(entry) == entry.parts[1].text

InitialSession_swapped ==
    [ history |-> << Turn("model", initial_greeting), Turn("user", HELLO) >>,
      collected_data |-> [field \in Range(REQUIRED_FIELDS) |-> None],
      tech_questions_asked |-> FALSE,
      tech_answers_collected |-> FALSE ]

\* The state that connect() stores for a new websocket.
InitialSession ==
    [ history |-> << Turn("user", HELLO), Turn("model", initial_greeting) >>,
      collected_data |-> [field \in Range(REQUIRED_FIELDS) |-> None],
      tech_questions_asked |-> FALSE,
      tech_answers_collected |-> FALSE ]

\* dict.get(key, default)
SessionGet(session, key, default) ==
    IF key \in DOMAIN session THEN session[key] ELSE default

\* ---------------------------------------------------------- Turn Processor
missing_fields_inverted(session) ==
    SelectSeq(REQUIRED_FIELDS, LAMBDA f : session.collected_data[f] # None)

\* [f for f, v in session["collected_data"].items() if v is None]
missing_fields(session) ==
    SelectSeq(REQUIRED_FIELDS, LAMBDA f : session.collected_data[f] = None)

\* The message list built from the history: entries whose role or text is
\* empty are skipped.
RECURSIVE contents(_)
contents(history) ==
    IF history = <<>> THEN <<>>
    ELSE LET entry == Head(history)
             role  == entry.role
             text  == TurnText(entry)
         IN  IF role # "" /\ text # <<>>
             THEN <<[role |-> role, text |-> text]>> \o contents(Tail(history))
             ELSE contents(Tail(history))

\* The request handed to generate_content_stream.
Request(session) ==
    [ contents |-> contents(session.history),
      missing_fields |-> missing_fields(session),
      collected_data |-> session.collected_data,
      tech_questions_asked |-> SessionGet(session, "tech_questions_asked", FALSE),
      tech_answers_collected |-> SessionGet(session, "tech_answers_collected", FALSE),
      application_completed |-> SessionGet(session, "application_completed", FALSE) ]

\* for chunk in response_stream: if text: full_response += text
RECURSIVE ConcatChunks(_, _)
ConcatChunks(full_response, chunks) ==
    IF chunks = <<>> THEN full_response
    ELSE LET chunk == Head(chunks)
             text  == IF chunk.has_text THEN chunk.text ELSE <<>>
         IN  ConcatChunks(IF text # <<>> THEN full_response \o text
                                         ELSE full_response,
                          Tail(chunks))

Return(value) == [raised |-> FALSE, value |-> value]
Raise == [raised |-> TRUE, value |-> <<>>]

\* Variants of get_next_bot_response with a plausible defect each.
get_next_bot_response_reraise(session, api_key, prov) ==
    IF api_key = None \/ prov.stage \in {"client", "open", "stream"}
    THEN Raise
    ELSE LET full_response == ConcatChunks(<<>>, prov.chunks)
         IN  Return(IF full_response # <<>> THEN Strip(full_response)
                                            ELSE NO_RESPONSE)

get_next_bot_response_partial(session, api_key, prov) ==
    IF api_key = None \/ prov.stage \in {"client", "open"}
    THEN Return(TECHNICAL_ISSUE)
    ELSE LET full_response == ConcatChunks(<<>>, prov.chunks)
         IN  Return(IF full_response # <<>> THEN Strip(full_response)
                                            ELSE NO_RESPONSE)

get_next_bot_response_unstripped(session, api_key, prov) ==
    IF api_key = None \/ prov.stage \in {"client", "open", "stream"}
    THEN Return(TECHNICAL_ISSUE)
    ELSE Return(ConcatChunks(<<>>, prov.chunks))

\* get_next_bot_response(session): the whole body is inside try/except
\* Exception, so every failure becomes the technical-issue text.
get_next_bot_response(session, api_key, prov) ==
    IF api_key = None
    THEN Return(TECHNICAL_ISSUE)              \* os.environ[...] KeyError
    ELSE IF prov.stage = "client"
    THEN Return(TECHNICAL_ISSUE)              \* genai.Client(...) raises
    ELSE IF prov.stage = "open"
    THEN Return(TECHNICAL_ISSUE)              \* generate_content_stream raises
    ELSE LET full_response == ConcatChunks(<<>>, prov.chunks)
         IN  IF prov.stage = "stream"
             THEN Return(TECHNICAL_ISSUE)     \* the iteration raises
             ELSE Return(IF full_response # <<>> THEN Strip(full_response)
                                                 ELSE NO_RESPONSE)

get_next_bot_response_session_appends(session, api_key, prov) ==
    [session EXCEPT !.history =
        Append(@, Turn("model", get_next_bot_response(session, api_key, prov).value))]

\* The session object as get_next_bot_response leaves it: the function only
\* reads session["collected_data"], session.get(...) and session["history"].
get_next_bot_response_session(session, api_key, prov) == session

\* ------------------------------------------------------ ConnectionManager
NoConnections == [ws \in {} |-> InitialSession]

Put_nothing(conns, ws, session) == conns

\* active_connections[websocket] = session
Put(conns, ws, session) ==
    [w \in DOMAIN conns \cup {ws} |-> IF w = ws THEN session ELSE conns[w]]

disconnect_all(conns, ws) ==
    [conns |-> NoConnections, raised |-> FALSE]

disconnect_unguarded(conns, ws) ==
    [ conns  |-> [w \in DOMAIN conns \ {ws} |-> conns[w]],
      raised |-> ws \notin DOMAIN conns ]

\* disconnect(websocket)
disconnect(conns, ws) ==
    IF ws \in DOMAIN conns
    THEN [conns |-> [w \in DOMAIN conns \ {ws} |-> conns[w]], raised |-> FALSE]
    ELSE [conns |-> conns, raised |-> FALSE]

AppendTurn_front(session, role, text) ==
    [session EXCEPT !.history = <<Turn(role, text)>> \o @]

\* session["history"].append({'role': role, 'parts': [{'text': text}]})
AppendTurn(session, role, text) ==
    [session EXCEPT !.history = Append(@, Turn(role, text))]

handle_message_no_reply(conns, ws, user_input, api_key, prov) ==
    IF ws \notin DOMAIN conns
    THEN [conns |-> conns, raised |-> TRUE, called |-> FALSE, ncalls |-> 0,
          bot_response |-> <<>>]
    ELSE LET s1 == AppendTurn(conns[ws], "user", user_input)
             r  == get_next_bot_response(s1, api_key, prov)
         IN  [conns |-> Put(conns, ws, s1), raised |-> r.raised,
              called |-> TRUE, ncalls |-> 1, bot_response |-> r.value]

handle_message_retry(conns, ws, user_input, api_key, prov) ==
    IF ws \notin DOMAIN conns
    THEN [conns |-> conns, raised |-> TRUE, called |-> FALSE, ncalls |-> 0,
          bot_response |-> <<>>]
    ELSE LET s1 == AppendTurn(conns[ws], "user", user_input)
             r1 == get_next_bot_response(s1, api_key, prov)
             r  == IF r1.value = TECHNICAL_ISSUE
                   THEN get_next_bot_response(s1, api_key, prov) ELSE r1
         IN  [conns |-> Put(conns, ws, AppendTurn(s1, "model", r.value)),
              raised |-> r.raised, called |-> TRUE,
              ncalls |-> IF r1.value = TECHNICAL_ISSUE THEN 2 ELSE 1,
              bot_response |-> r.value]

\* handle_message(websocket, user_input), up to the await of send_text.
handle_message(conns, ws, user_input, api_key, prov) ==
    IF ws \notin DOMAIN conns
    THEN [conns |-> conns, raised |-> TRUE, called |-> FALSE, ncalls |-> 0,
          bot_response |-> <<>>]                 \* get_session_data KeyError
    ELSE LET s1 == AppendTurn(conns[ws], "user", user_input)
             r  == get_next_bot_response(s1, api_key, prov)
             s2 == get_next_bot_response_session(s1, api_key, prov)
         IN  IF r.raised
             THEN [conns |-> Put(conns, ws, s2), raised |-> TRUE,
                   called |-> TRUE, ncalls |-> 1, bot_response |-> <<>>]
             ELSE [conns |-> Put(conns, ws, AppendTurn(s2, "model", r.value)),
                   raised |-> FALSE, called |-> TRUE, ncalls |-> 1,
                   bot_response |-> r.value]

\* ------------------------------------------------------- Transport Endpoint
IsExit_substring(data) ==
    \E k \in EXIT_KEYWORDS :
        \E i \in 0..(Len(data) - Len(k)) :
            SubSeq(Lower(data), i + 1, i + Len(k)) = k

\* data.lower().strip() in EXIT_KEYWORDS
IsExit(data) == Strip(Lower(data)) \in EXIT_KEYWORDS

\* ------------------------------------------------------------------ state
VARIABLES
    GEMINI_API_KEY,      \* os.environ["GEMINI_API_KEY"]: "key", or None if unset
    active_connections,  \* manager.active_connections: websocket -> session
    pc,                  \* where each websocket_endpoint coroutine is suspended
    data,                \* the endpoint's local: the text receive_text returned
    bot_response,        \* handle_message's local, awaiting send_text
    call,                \* <<>> or <<the provider call of the handle_message
                         \*  invocation in progress>>
    sent,                \* the texts delivered to each client, in order
    nreceived,           \* number of texts receive_text has returned
    naccepted,           \* number of texts passed to handle_message
    ncalls,              \* number of get_next_bot_response calls
    closed,              \* websocket.close() has run
    ended                \* why the handler left its loop

vars == << GEMINI_API_KEY, active_connections, pc, data, bot_response, call,
           sent, nreceived, naccepted, ncalls, closed, ended >>

RECURSIVE TotalReceived(_)
TotalReceived(S) ==
    IF S = {} THEN 0
    ELSE LET ws == CHOOSE w \in S : TRUE
         IN  nreceived[ws] + TotalReceived(S \ {ws})

\* The exceptions the endpoint distinguishes.
Exceptions == {"WebSocketDisconnect", "Exception"}

Init ==
    /\ GEMINI_API_KEY \in {"key", None}
    /\ active_connections = NoConnections
    /\ pc = [ws \in Conns |-> "start"]
    /\ data = [ws \in Conns |-> <<>>]
    /\ bot_response = [ws \in Conns |-> <<>>]
    /\ call = [ws \in Conns |-> <<>>]
    /\ sent = [ws \in Conns |-> <<>>]
    /\ nreceived = [ws \in Conns |-> 0]
    /\ naccepted = [ws \in Conns |-> 0]
    /\ ncalls = [ws \in Conns |-> 0]
    /\ closed = [ws \in Conns |-> FALSE]
    /\ ended = [ws \in Conns |-> "running"]

\* connect(): accept() returns, the session is stored; the coroutine is
\* suspended in send_text(initial_greeting).
Connect(ws) ==
    /\ pc[ws] = "start"
    /\ active_connections' = Put(active_connections, ws, InitialSession)
    /\ pc' = [pc EXCEPT ![ws] = "greeting"]
    /\ UNCHANGED << GEMINI_API_KEY, data, bot_response, call, sent, nreceived,
                    naccepted, ncalls, closed, ended >>

\* connect(): accept() raises; connect() is outside the endpoint's try.
AcceptFail(ws) ==
    /\ pc[ws] = "start"
    /\ pc' = [pc EXCEPT ![ws] = "done"]
    /\ ended' = [ended EXCEPT ![ws] = "accept_failed"]
    /\ UNCHANGED << GEMINI_API_KEY, active_connections, data, bot_response,
                    call, sent, nreceived, naccepted, ncalls, closed >>

\* connect(): the greeting is delivered; the endpoint enters its loop and
\* is suspended in receive_text().
SendGreeting(ws) ==
    /\ pc[ws] = "greeting"
    /\ sent' = [sent EXCEPT ![ws] = Append(@, initial_greeting)]
    /\ pc' = [pc EXCEPT ![ws] = "receive"]
    /\ UNCHANGED << GEMINI_API_KEY, active_connections, data, bot_response,
                    call, nreceived, naccepted, ncalls, closed, ended >>

\* connect(): send_text(initial_greeting) raises; connect() is outside the
\* endpoint's try, so neither an except clause nor finally runs.
SendGreetingFail(ws) ==
    /\ pc[ws] = "greeting"
    /\ pc' = [pc EXCEPT ![ws] = "done"]
    /\ ended' = [ended EXCEPT ![ws] = "greeting_failed"]
    /\ UNCHANGED << GEMINI_API_KEY, active_connections, data, bot_response,
                    call, sent, nreceived, naccepted, ncalls, closed >>

\* receive_text() returns an exit keyword: the coroutine is suspended in
\* send_text(farewell).
ReceiveExit(ws, text) ==
    /\ pc[ws] = "receive"
    /\ TotalReceived(Conns) < MaxMsgs
    /\ IsExit(text)
    /\ data' = [data EXCEPT ![ws] = text]
    /\ nreceived' = [nreceived EXCEPT ![ws] = @ + 1]
    /\ pc' = [pc EXCEPT ![ws] = "farewell"]
    /\ UNCHANGED << GEMINI_API_KEY, active_connections, bot_response, call,
                    sent, naccepted, ncalls, closed, ended >>

ReceiveMessage_concurrent(ws, text, prov) ==
    /\ pc[ws] \in {"receive", "reply"}
    /\ TotalReceived(Conns) < MaxMsgs
    /\ ~IsExit(text)
    /\ data' = [data EXCEPT ![ws] = text]
    /\ nreceived' = [nreceived EXCEPT ![ws] = @ + 1]
    /\ naccepted' = [naccepted EXCEPT ![ws] = @ + 1]
    /\ LET r == handle_message(active_connections, ws, text,
                               GEMINI_API_KEY, prov)
       IN  /\ IF r.called
              THEN /\ ncalls' = [ncalls EXCEPT ![ws] = @ + r.ncalls]
                   /\ call' = [call EXCEPT ![ws] =
                        << [ api_key |-> GEMINI_API_KEY,
                             prov |-> prov,
                             session |-> AppendTurn(active_connections[ws],
                                                    "user", text),
                             request |-> Request(
                                 AppendTurn(active_connections[ws],
                                            "user", text)),
                             raised |-> r.raised ] >>]
              ELSE UNCHANGED << ncalls, call >>
           /\ IF r.raised
              THEN /\ active_connections' = disconnect(r.conns, ws).conns
                   /\ pc' = [pc EXCEPT ![ws] = "closing"]
                   /\ ended' = [ended EXCEPT ![ws] = "Exception"]
                   /\ UNCHANGED bot_response
              ELSE /\ active_connections' = r.conns
                   /\ bot_response' = [bot_response EXCEPT ![ws] = r.bot_response]
                   /\ pc' = [pc EXCEPT ![ws] = "reply"]
                   /\ UNCHANGED ended
    /\ UNCHANGED << GEMINI_API_KEY, sent, closed >>

\* receive_text() returns any other text: handle_message runs up to its
\* send_text (get_next_bot_response is a blocking call, nothing interleaves).
ReceiveMessage(ws, text, prov) ==
    /\ pc[ws] = "receive"
    /\ TotalReceived(Conns) < MaxMsgs
    /\ ~IsExit(text)
    /\ data' = [data EXCEPT ![ws] = text]
    /\ nreceived' = [nreceived EXCEPT ![ws] = @ + 1]
    /\ naccepted' = [naccepted EXCEPT ![ws] = @ + 1]
    /\ LET r == handle_message(active_connections, ws, text,
                               GEMINI_API_KEY, prov)
       IN  /\ IF r.called
              THEN /\ ncalls' = [ncalls EXCEPT ![ws] = @ + r.ncalls]
                   /\ call' = [call EXCEPT ![ws] =
                        << [ api_key |-> GEMINI_API_KEY,
                             prov |-> prov,
                             session |-> AppendTurn(active_connections[ws],
                                                    "user", text),
                             request |-> Request(
                                 AppendTurn(active_connections[ws],
                                            "user", text)),
                             raised |-> r.raised ] >>]
              ELSE UNCHANGED << ncalls, call >>
           /\ IF r.raised
              THEN /\ active_connections' = disconnect(r.conns, ws).conns
                   /\ pc' = [pc EXCEPT ![ws] = "closing"]
                   /\ ended' = [ended EXCEPT ![ws] = "Exception"]
                   /\ UNCHANGED bot_response
              ELSE /\ active_connections' = r.conns
                   /\ bot_response' = [bot_response EXCEPT ![ws] = r.bot_response]
                   /\ pc' = [pc EXCEPT ![ws] = "reply"]
                   /\ UNCHANGED ended
    /\ UNCHANGED << GEMINI_API_KEY, sent, closed >>

\* receive_text() raises (WebSocketDisconnect, or anything else): the
\* except clause runs manager.disconnect; finally awaits close().
ReceiveFail(ws, exc) ==
    /\ pc[ws] = "receive"
    /\ active_connections' = disconnect(active_connections, ws).conns
    /\ pc' = [pc EXCEPT ![ws] = "closing"]
    /\ ended' = [ended EXCEPT ![ws] = exc]
    /\ UNCHANGED << GEMINI_API_KEY, data, bot_response, call, sent, nreceived,
                    naccepted, ncalls, closed >>

\* The farewell is delivered; break leaves the loop; finally awaits close().
SendFarewell(ws) ==
    /\ pc[ws] = "farewell"
    /\ sent' = [sent EXCEPT ![ws] = Append(@, FAREWELL)]
    /\ pc' = [pc EXCEPT ![ws] = "closing"]
    /\ ended' = [ended EXCEPT ![ws] = "exit"]
    /\ UNCHANGED << GEMINI_API_KEY, active_connections, data, bot_response,
                    call, nreceived, naccepted, ncalls, closed >>

\* send_text(farewell) raises.
SendFarewellFail(ws, exc) ==
    /\ pc[ws] = "farewell"
    /\ active_connections' = disconnect(active_connections, ws).conns
    /\ pc' = [pc EXCEPT ![ws] = "closing"]
    /\ ended' = [ended EXCEPT ![ws] = exc]
    /\ UNCHANGED << GEMINI_API_KEY, data, bot_response, call, sent, nreceived,
                    naccepted, ncalls, closed >>

SendReply_echo(ws) ==
    /\ pc[ws] = "reply"
    /\ sent' = [sent EXCEPT ![ws] = Append(@, data[ws])]
    /\ bot_response' = [bot_response EXCEPT ![ws] = <<>>]
    /\ call' = [call EXCEPT ![ws] = <<>>]
    /\ pc' = [pc EXCEPT ![ws] = "receive"]
    /\ UNCHANGED << GEMINI_API_KEY, active_connections, data, nreceived,
                    naccepted, ncalls, closed, ended >>

\* handle_message: send_text(bot_response) returns and handle_message
\* ends; the endpoint is back in receive_text().
SendReply(ws) ==
    /\ pc[ws] = "reply"
    /\ sent' = [sent EXCEPT ![ws] = Append(@, bot_response[ws])]
    /\ bot_response' = [bot_response EXCEPT ![ws] = <<>>]
    /\ call' = [call EXCEPT ![ws] = <<>>]
    /\ pc' = [pc EXCEPT ![ws] = "receive"]
    /\ UNCHANGED << GEMINI_API_KEY, active_connections, data, nreceived,
                    naccepted, ncalls, closed, ended >>

\* handle_message: send_text(bot_response) raises.
SendReplyFail(ws, exc) ==
    /\ pc[ws] = "reply"
    /\ active_connections' = disconnect(active_connections, ws).conns
    /\ bot_response' = [bot_response EXCEPT ![ws] = <<>>]
    /\ call' = [call EXCEPT ![ws] = <<>>]
    /\ pc' = [pc EXCEPT ![ws] = "closing"]
    /\ ended' = [ended EXCEPT ![ws] = exc]
    /\ UNCHANGED << GEMINI_API_KEY, data, sent, nreceived, naccepted, ncalls,
                    closed >>

\* finally: await websocket.close(); the coroutine ends.
Close(ws) ==
    /\ pc[ws] = "closing"
    /\ closed' = [closed EXCEPT ![ws] = TRUE]
    /\ data' = [data EXCEPT ![ws] = <<>>]
    /\ pc' = [pc EXCEPT ![ws] = "done"]
    /\ UNCHANGED << GEMINI_API_KEY, active_connections, bot_response, call,
                    sent, nreceived, naccepted, ncalls, ended >>

Next ==
    \E ws \in Conns :
        \/ Connect(ws)
        \/ AcceptFail(ws)
        \/ SendGreeting(ws)
        \/ SendGreetingFail(ws)
        \/ \E text \in Msgs : ReceiveExit(ws, text)
        \/ \E text \in Msgs, prov \in ProviderBehaviours :
               ReceiveMessage(ws, text, prov)
        \/ \E exc \in Exceptions : ReceiveFail(ws, exc)
        \/ SendFarewell(ws)
        \/ \E exc \in Exceptions : SendFarewellFail(ws, exc)
        \/ SendReply(ws)
        \/ \E exc \in Exceptions : SendReplyFail(ws, exc)
        \/ Close(ws)

Spec == Init /\ [][Next]_vars

\* ================================================================ claims
History(ws) == active_connections[ws].history

Stored(ws) == ws \in DOMAIN active_connections

\* The handle_message invocation in progress on ws met a provider failure.
CallFailed(ws) ==
    /\ call[ws] # <<>>
    /\ \/ call[ws][1].api_key = None
       \/ call[ws][1].prov.stage # "none"

\* ---------------------------------------------------------------------- C1
\* C1: after N accepted (non-exit) messages the stored history has exactly
\* 2 + 2N turns, the i-th accepted message contributing a user turn followed
\* by a model turn; an exit keyword adds no turn (the history length is
\* 2 + 2 * (received - 1)) and ends the receive loop, the channel being
\* closed when the handler is done.
C1_HistoryLength ==
    \A ws \in Conns :
        /\ (Stored(ws) /\ pc[ws] # "start") =>
              /\ Len(History(ws)) = 2 + 2 * naccepted[ws]
              /\ \A i \in 1..naccepted[ws] :
                    /\ History(ws)[2 * i + 1].role = "user"
                    /\ History(ws)[2 * i + 2].role = "model"
        /\ (Stored(ws) /\ pc[ws] = "reply") =>
              /\ History(ws)[2 * naccepted[ws] + 1] = Turn("user", data[ws])
              /\ History(ws)[2 * naccepted[ws] + 2]
                    = Turn("model", bot_response[ws])
        /\ (pc[ws] = "farewell" \/ ended[ws] = "exit") =>
              /\ naccepted[ws] = nreceived[ws] - 1
              /\ Stored(ws) => Len(History(ws)) = 2 + 2 * (nreceived[ws] - 1)
              /\ pc[ws] \in {"farewell", "closing", "done"}
              /\ pc[ws] = "done" => closed[ws]

C1_Witness ==
    \E ws \in Conns :
        /\ ended[ws] = "exit" /\ pc[ws] = "done" /\ closed[ws]
        /\ naccepted[ws] = 2 /\ nreceived[ws] = 3
        /\ Stored(ws) /\ Len(History(ws)) = 6

\* ---------------------------------------------------------------------- C2
\* C2: a session is in the store exactly as long as its connection; in
\* particular, once a client has sent an exit keyword, received the
\* farewell and the channel is closed, the store no longer holds the
\* connection.
C2_SessionGoneAfterExit ==
    \A ws \in Conns :
        (ended[ws] = "exit" /\ pc[ws] = "done" /\ closed[ws]) => ~Stored(ws)

\* ---------------------------------------------------------------------- C3
\* C3: when the provider call of a turn fails, handle_message still appends
\* exactly one model turn, whose text is the technical-issue text, after the
\* user turn; the text it then sends is exactly that text and the handler
\* returns to receive_text with the session intact and the channel open,
\* unless the send itself fails, in which case the session is removed and
\* the channel is closed.
C3_State ==
    \A ws \in Conns :
        CallFailed(ws) =>
            /\ pc[ws] = "reply"
            /\ Stored(ws)
            /\ Len(History(ws)) = 2 + 2 * naccepted[ws]
            /\ History(ws)[Len(History(ws)) - 1] = Turn("user", data[ws])
            /\ History(ws)[Len(History(ws))] = Turn("model", TECHNICAL_ISSUE)
            /\ bot_response[ws] = TECHNICAL_ISSUE
            /\ ~closed[ws]

C3_Step ==
    \A ws \in Conns :
        (CallFailed(ws) /\ pc'[ws] # pc[ws]) =>
            \/ /\ pc'[ws] = "receive"
               /\ sent'[ws] = Append(sent[ws], TECHNICAL_ISSUE)
               /\ ws \in DOMAIN active_connections'
               /\ active_connections'[ws] = active_connections[ws]
               /\ ~closed'[ws]
               /\ ended'[ws] = "running"
            \/ /\ pc'[ws] = "closing"
               /\ ws \notin DOMAIN active_connections'
               /\ sent'[ws] = sent[ws]
               /\ ended'[ws] \in Exceptions

C3_FallbackOnProviderFailure == [] C3_State /\ [][C3_Step]_vars

\* A first message met a provider failure and was answered with the
\* technical-issue text; the next message on the same connection was
\* answered by the provider.
C3_Witness ==
    \E ws \in Conns :
        /\ pc[ws] = "reply" /\ naccepted[ws] = 2 /\ Stored(ws)
        /\ History(ws)[4] = Turn("model", TECHNICAL_ISSUE)
        /\ sent[ws] = <<initial_greeting, TECHNICAL_ISSUE>>
        /\ ~CallFailed(ws)
        /\ bot_response[ws] = <<"H", "i">>

\* ---------------------------------------------------------------------- C4
\* C4: get_next_bot_response never raises; when the credential is missing,
\* or building the client, opening the stream or iterating the stream
\* fails (also after fragments have arrived), it returns the
\* technical-issue text, not the fragments received so far.
C4_NoExceptionEscapes ==
    \A ws \in Conns :
        call[ws] # <<>> =>
            /\ ~call[ws][1].raised
            /\ ended[ws] = "running"
            /\ CallFailed(ws) => bot_response[ws] = TECHNICAL_ISSUE

C4_Witness ==
    \E ws \in Conns :
        /\ call[ws] # <<>>
        /\ call[ws][1].api_key # None
        /\ call[ws][1].prov.stage = "stream"
        /\ call[ws][1].prov.chunks # <<>>
        /\ bot_response[ws] = TECHNICAL_ISSUE

\* ---------------------------------------------------------------------- C5
\* C5: the history of a session never gets shorter and every turn in it,
\* user turn or model turn, has a non-empty text.
C5_TextsNonEmpty ==
    \A ws \in DOMAIN active_connections :
        /\ Len(History(ws)) >= 2 + naccepted[ws]
        /\ \A i \in 1..Len(History(ws)) : TurnText(History(ws)[i]) # <<>>

\* ---------------------------------------------------------------------- C6
\* C6: right after connect() the session has exactly the two turns
\* (user, "Hello") and (model, greeting) in that order, every required field
\* is None, every phase flag reads false, and the one text sent to the
\* client is the greeting.
FreshSession(session) ==
    /\ Len(session.history) = 2
    /\ session.history[1].role = "user"
    /\ TurnText(session.history[1]) = <<"H", "e", "l", "l", "o">>
    /\ session.history[2].role = "model"
    /\ TurnText(session.history[2]) = initial_greeting
    /\ DOMAIN session.collected_data = Range(REQUIRED_FIELDS)
    /\ Cardinality(DOMAIN session.collected_data) = 7
    /\ \A f \in DOMAIN session.collected_data : session.collected_data[f] = None
    /\ ~SessionGet(session, "tech_questions_asked", FALSE)
    /\ ~SessionGet(session, "tech_answers_collected", FALSE)
    /\ ~SessionGet(session, "application_completed", FALSE)

C6_FreshSessionAfterConnect ==
    \A ws \in Conns :
        /\ pc[ws] = "greeting" => Stored(ws) /\ FreshSession(active_connections[ws])
                                   /\ sent[ws] = <<>>
        /\ (pc[ws] = "receive" /\ nreceived[ws] = 0) =>
              /\ Stored(ws) /\ FreshSession(active_connections[ws])
              /\ sent[ws] = <<initial_greeting>>

C6_Witness ==
    \E ws \in Conns :
        /\ pc[ws] = "receive" /\ nreceived[ws] = 0
        /\ sent[ws] = <<initial_greeting>>
        /\ Stored(ws)

\* ---------------------------------------------------------------------- C7
\* The inbound texts that are an exit keyword once lower-cased and trimmed:
\* "exit", " Bye " and "QUIT\n"; "goodbye friend" and "" are not.
ExitTexts ==
    { <<"e", "x", "i", "t">>,
      <<" ", "B", "y", "e", " ">>,
      <<"Q", "U", "I", "T", "\n">> }

\* C7: a received text takes the farewell path if and only if it is an exit
\* keyword after lower-casing and trimming (a text that only contains a
\* keyword is handled as a message); on the farewell path handle_message and
\* the provider are not invoked, the farewell is the last text sent and the
\* channel is closed when the handler is done.
C7_ExitKeywordExactMatch ==
    \A ws \in Conns :
        /\ pc[ws] = "farewell" =>
              /\ data[ws] \in ExitTexts
              /\ call[ws] = <<>>
              /\ ncalls[ws] = nreceived[ws] - 1
              /\ naccepted[ws] = nreceived[ws] - 1
        /\ pc[ws] = "reply" =>
              /\ data[ws] \notin ExitTexts
              /\ ncalls[ws] = nreceived[ws]
        /\ ended[ws] = "exit" =>
              /\ sent[ws][Len(sent[ws])] = FAREWELL
              /\ ncalls[ws] = nreceived[ws] - 1
              /\ pc[ws] \in {"closing", "done"}
              /\ pc[ws] = "done" => closed[ws]

\* One connection took the farewell path on " Bye " while another handled
\* "goodbye friend" as a message.
C7_Witness ==
    \E a, b \in Conns :
        /\ pc[a] = "closing" /\ ended[a] = "exit"
        /\ data[a] = <<" ", "B", "y", "e", " ">>
        /\ pc[b] = "reply" /\ data[b] = M_goodbye_friend
        /\ ncalls[b] = 1

\* ---------------------------------------------------------------------- C8
\* C8: disconnect is idempotent: for a stored connection, and for one that
\* is not stored, it raises nothing, a second call changes nothing more, and
\* the sessions of all other connections are as before.
C8_DisconnectIdempotent ==
    \A ws \in Conns :
        LET once  == disconnect(active_connections, ws)
            twice == disconnect(once.conns, ws)
        IN  /\ ~once.raised
            /\ ~twice.raised
            /\ twice.conns = once.conns
            /\ ws \notin DOMAIN once.conns
            /\ DOMAIN once.conns = DOMAIN active_connections \ {ws}
            /\ \A other \in DOMAIN once.conns :
                  once.conns[other] = active_connections[other]

\* The handler of one connection has run disconnect while another
\* connection holds a session with a conversation in it.
C8_Witness ==
    \E a, b \in Conns :
        /\ ended[a] \in Exceptions /\ ~Stored(a) /\ naccepted[a] = 1
        /\ Stored(b) /\ naccepted[b] = 1 /\ pc[b] = "receive"

\* ---------------------------------------------------------------------- C9
\* C9: when the client disconnects abruptly, or any other error is raised
\* while a connection is served, the handler removes the session from the
\* store and closes the channel.
C9_CleanupOnError ==
    \A ws \in Conns :
        (pc[ws] = "done" /\
         ended[ws] \in Exceptions \cup {"greeting_failed"}) =>
            /\ ~Stored(ws)
            /\ closed[ws]

\* --------------------------------------------------------------------- C10
\* The texts of the chunks that carry one, joined in arrival order.
RECURSIVE JoinFragments(_)
JoinFragments(chunks) ==
    IF chunks = <<>> THEN <<>>
    ELSE JoinFragments(SubSeq(chunks, 1, Len(chunks) - 1))
           \o (IF chunks[Len(chunks)].has_text
               THEN chunks[Len(chunks)].text ELSE <<>>)

\* s without its leading and trailing whitespace.
Trimmed(s) ==
    LET keep == {i \in 1..Len(s) : s[i] \notin {" ", "\n", "\t"}}
    IN  IF keep = {} THEN <<>>
        ELSE SubSeq(s, CHOOSE i \in keep : \A j \in keep : i <= j,
                       CHOOSE i \in keep : \A j \in keep : i >= j)

\* C10: when the provider call succeeds, the reply is the concatenation of
\* the streamed fragments in arrival order, trimmed; when the stream carries
\* no text at all, the reply is the no-response text.
C10_ReplyIsTrimmedConcatenation ==
    \A ws \in Conns :
        (call[ws] # <<>> /\ ~CallFailed(ws)) =>
            LET joined == JoinFragments(call[ws][1].prov.chunks)
            IN  bot_response[ws] =
                    IF joined = <<>> THEN NO_RESPONSE ELSE Trimmed(joined)

C10_Witness ==
    \E a, b \in Conns :
        /\ call[a] # <<>> /\ ~CallFailed(a)
        /\ Len(call[a][1].prov.chunks) = 3
        /\ bot_response[a] = <<"H", "i">>
        /\ call[b] # <<>> /\ ~CallFailed(b)
        /\ bot_response[b] = NO_RESPONSE

\* --------------------------------------------------------------------- C11
\* C11: message handling on one connection is sequential: a further text is
\* received on a connection only when no handle_message invocation is in
\* progress there, every earlier accepted message having had its reply
\* appended to the history and sent; and in the stored history every user
\* turn is directly followed by the model turn that answers it.
C11_State ==
    \A ws \in DOMAIN active_connections :
        \A i \in 1..Len(History(ws)) :
            History(ws)[i].role = "user" =>
                /\ i < Len(History(ws))
                /\ History(ws)[i + 1].role = "model"

C11_Step ==
    \A ws \in Conns :
        nreceived'[ws] # nreceived[ws] =>
            /\ pc[ws] = "receive"
            /\ call[ws] = <<>>
            /\ Len(sent[ws]) = 1 + naccepted[ws]
            /\ Stored(ws)
            /\ Len(History(ws)) = 2 + 2 * naccepted[ws]
            /\ TurnText(History(ws)[Len(History(ws))]) = sent[ws][Len(sent[ws])]

C11_SequentialPerConnection == [] C11_State /\ [][C11_Step]_vars

\* A second message is being handled on a connection whose first message
\* was answered and the answer sent.
C11_Witness ==
    \E ws \in Conns :
        /\ pc[ws] = "reply" /\ nreceived[ws] = 2 /\ naccepted[ws] = 2
        /\ Len(sent[ws]) = 2
        /\ Stored(ws) /\ Len(History(ws)) = 6
        /\ History(ws)[5].role = "user" /\ History(ws)[6].role = "model"

\* --------------------------------------------------------------------- C12
\* C12: a step of one connection's handler leaves every other connection
\* as it was: the other connection is stored after the step exactly if it
\* was stored before, with the same session, and its handler's position,
\* locals, counters and transcript are unchanged.
C12_Step ==
    \A a, b \in Conns :
        (a # b /\ pc'[a] # pc[a]) =>
            /\ (b \in DOMAIN active_connections')
                  <=> (b \in DOMAIN active_connections)
            /\ b \in DOMAIN active_connections =>
                  active_connections'[b] = active_connections[b]
            /\ pc'[b] = pc[b]
            /\ data'[b] = data[b]
            /\ bot_response'[b] = bot_response[b]
            /\ call'[b] = call[b]
            /\ sent'[b] = sent[b]
            /\ nreceived'[b] = nreceived[b]
            /\ naccepted'[b] = naccepted[b]
            /\ ncalls'[b] = ncalls[b]
            /\ closed'[b] = closed[b]
            /\ ended'[b] = ended[b]

C12_ConnectionsIsolated == [][C12_Step]_vars

\* Two conversations interleaved: one handler is sending its reply while
\* the other has had a reply and waits for the next text.
C12_Witness ==
    \E a, b \in Conns :
        /\ a # b
        /\ Stored(a) /\ Stored(b)
        /\ pc[a] = "reply" /\ naccepted[a] = 1
        /\ pc[b] = "receive" /\ naccepted[b] = 1
        /\ History(a) # History(b)

\* --------------------------------------------------------------------- C13
\* C13: get_next_bot_response leaves the session it is given as it was:
\* after the call, on the success path and on the failure path alike, the
\* stored session is the session that was passed to the call with only the
\* caller's model turn appended to its history.
C13_ProcessorDoesNotMutate ==
    \A ws \in Conns :
        call[ws] # <<>> =>
            /\ Stored(ws)
            /\ active_connections[ws].collected_data
                  = call[ws][1].session.collected_data
            /\ active_connections[ws].tech_questions_asked
                  = call[ws][1].session.tech_questions_asked
            /\ active_connections[ws].tech_answers_collected
                  = call[ws][1].session.tech_answers_collected
            /\ DOMAIN active_connections[ws] = DOMAIN call[ws][1].session
            /\ History(ws) = Append(call[ws][1].session.history,
                                    Turn("model", bot_response[ws]))

\* One call has succeeded and one has failed.
C13_Witness ==
    \E a, b \in Conns :
        /\ call[a] # <<>> /\ ~CallFailed(a)
        /\ bot_response[a] = <<"H", "i">>
        /\ CallFailed(b) /\ call[b][1].prov.stage = "open"
        /\ Len(History(a)) = 4 /\ Len(History(b)) = 4

\* --------------------------------------------------------------------- C14
\* C14: for the whole life of a session all seven required fields stay None
\* and the three phase flags read false, and the missing-field list of
\* every provider request is the full required-field list.
C14_FieldsAndFlagsInert ==
    /\ \A ws \in DOMAIN active_connections :
          LET session == active_connections[ws]
          IN  /\ DOMAIN session.collected_data = Range(REQUIRED_FIELDS)
              /\ \A f \in Range(REQUIRED_FIELDS) : session.collected_data[f] = None
              /\ ~SessionGet(session, "tech_questions_asked", FALSE)
              /\ ~SessionGet(session, "tech_answers_collected", FALSE)
              /\ ~SessionGet(session, "application_completed", FALSE)
    /\ \A ws \in Conns :
          call[ws] # <<>> =>
              /\ call[ws][1].request.missing_fields = REQUIRED_FIELDS
              /\ Len(call[ws][1].request.missing_fields) = 7
              /\ ~call[ws][1].request.tech_questions_asked
              /\ ~call[ws][1].request.tech_answers_collected
              /\ ~call[ws][1].request.application_completed

C14_Witness ==
    \E ws \in Conns :
        /\ call[ws] # <<>> /\ naccepted[ws] = 2
        /\ call[ws][1].request.missing_fields = REQUIRED_FIELDS
        /\ Stored(ws) /\ Len(History(ws)) = 6
        /\ History(ws)[4] = Turn("model", <<"H", "i">>)

\* --------------------------------------------------------------------- C15
\* C15: each accepted message causes exactly one provider call, also when
\* that call fails (the failed turn gets the technical-issue text and no
\* second call); a step makes at most one call, and only for a newly
\* accepted message.
C15_State ==
    \A ws \in Conns :
        /\ ncalls[ws] = naccepted[ws]
        /\ CallFailed(ws) => bot_response[ws] = TECHNICAL_ISSUE

C15_Step ==
    \A ws \in Conns :
        ncalls'[ws] # ncalls[ws] =>
            /\ ncalls'[ws] = ncalls[ws] + 1
            /\ naccepted'[ws] = naccepted[ws] + 1
            /\ call'[ws] # <<>>

C15_OneCallPerMessage == [] C15_State /\ [][C15_Step]_vars

\* After a failed call answered with the technical-issue text, the call for
\* the next message on the same session succeeded.
C15_Witness ==
    \E ws \in Conns :
        /\ ncalls[ws] = 2 /\ naccepted[ws] = 2
        /\ Stored(ws)
        /\ History(ws)[4] = Turn("model", TECHNICAL_ISSUE)
        /\ call[ws] # <<>> /\ ~CallFailed(ws)
        /\ History(ws)[6] = Turn("model", NO_RESPONSE)

\* --------------------------------------------------------------------- C16
\* C16: when the credential is absent at startup the service serves no chat
\* traffic: no connection is accepted (no session is stored, nothing is
\* sent) and no inbound message is processed.
C16_NoTrafficWithoutCredential ==
    GEMINI_API_KEY = None =>
        \A ws \in Conns :
            /\ ~Stored(ws)
            /\ sent[ws] = <<>>
            /\ nreceived[ws] = 0
            /\ naccepted[ws] = 0

\* --------------------------------------------------------------------- C17
\* C17: the message list of every provider request is the full history of
\* the session at the time of the call: one message per turn, in order,
\* with that turn's role and text, no turn dropped.
C17_FullHistoryReplayed ==
    \A ws \in Conns :
        call[ws] # <<>> =>
            LET history == call[ws][1].session.history
                messages == call[ws][1].request.contents
            IN  /\ Len(messages) = Len(history)
                /\ \A i \in 1..Len(history) :
                      messages[i] = [role |-> history[i].role,
                                     text |-> TurnText(history[i])]

\* --------------------------------------------------------------------- C18
\* C18: a session lookup is only made for a stored connection: from the
\* moment connect() has stored the session until the handler leaves its
\* loop the connection is in the store, no text is received on a connection
\* that is not stored, and every accepted message got past the lookup to
\* its provider call.
C18_State ==
    \A ws \in Conns :
        /\ pc[ws] \in {"greeting", "receive", "reply", "farewell"} => Stored(ws)
        /\ ncalls[ws] = naccepted[ws]
        /\ naccepted[ws] > 0 =>
              \/ Stored(ws)
              \/ pc[ws] \in {"closing", "done"} /\ ended[ws] \in Exceptions

C18_Step ==
    \A ws \in Conns :
        nreceived'[ws] # nreceived[ws] =>
            /\ Stored(ws)
            /\ ws \in DOMAIN active_connections'

C18_LookupNeverFails == [] C18_State /\ [][C18_Step]_vars

\* A second message is handled on one connection after the session of
\* another connection has been removed.
C18_Witness ==
    \E a, b \in Conns :
        /\ pc[a] = "reply" /\ naccepted[a] = 2 /\ Stored(a)
        /\ ~Stored(b) /\ ended[b] = "WebSocketDisconnect" /\ pc[b] = "done"

\* --------------------------------------------------------------------- C19
\* C19: the roles of a stored history alternate user, model, user, model
\* from the first turn on; the history given to the provider has odd length
\* and ends with the user turn holding the text just received; while the
\* handler waits for the next text the history has even length and ends
\* with a model turn.
C19_RolesAlternate ==
    \A ws \in Conns :
        /\ Stored(ws) =>
              \A i \in 1..Len(History(ws)) :
                  History(ws)[i].role = IF i % 2 = 1 THEN "user" ELSE "model"
        /\ call[ws] # <<>> =>
              LET given == call[ws][1].session.history
              IN  /\ Len(given) % 2 = 1
                  /\ given[Len(given)] = Turn("user", data[ws])
        /\ (Stored(ws) /\ pc[ws] = "receive") =>
              /\ Len(History(ws)) % 2 = 0
              /\ History(ws)[Len(History(ws))].role = "model"

C19_Witness ==
    \E a, b \in Conns :
        /\ call[a] # <<>> /\ Len(call[a][1].session.history) = 5
        /\ call[a][1].session.history[5] = Turn("user", M_goodbye_friend)
        /\ pc[b] = "receive" /\ Stored(b) /\ Len(History(b)) = 4

\* --------------------------------------------------------------------- C20
\* The number of replies among the texts sent on ws.
RepliesSent(ws) ==
    Len(sent[ws]) - 1 - (IF ended[ws] = "exit" THEN 1 ELSE 0)

\* C20: the first text sent on a connection is the greeting and it is sent
\* once; the texts sent after it are, in order, the texts of the model turns
\* appended for the accepted messages, one per accepted message; the
\* farewell is sent at most once, as the last text, and is not in the
\* history.
C20_State ==
    \A ws \in Conns :
        /\ pc[ws] \in {"start", "greeting"} => sent[ws] = <<>>
        /\ sent[ws] # <<>> =>
              /\ sent[ws][1] = initial_greeting
              /\ \A i \in 2..Len(sent[ws]) : sent[ws][i] # initial_greeting
              /\ RepliesSent(ws) >= 0
              /\ RepliesSent(ws) <= naccepted[ws]
              /\ pc[ws] \in {"receive", "farewell"} =>
                    RepliesSent(ws) = naccepted[ws]
              /\ pc[ws] = "reply" => RepliesSent(ws) = naccepted[ws] - 1
              /\ ended[ws] = "exit" =>
                    /\ RepliesSent(ws) = naccepted[ws]
                    /\ sent[ws][Len(sent[ws])] = FAREWELL
              /\ \A i \in 1..(1 + RepliesSent(ws)) : sent[ws][i] # FAREWELL
              /\ Stored(ws) =>
                    \A i \in 1..RepliesSent(ws) :
                        sent[ws][i + 1] = TurnText(History(ws)[2 * i + 2])
        /\ Stored(ws) =>
              \A i \in 1..Len(History(ws)) :
                  TurnText(History(ws)[i]) # FAREWELL

C20_Step ==
    \A ws \in Conns :
        sent'[ws] # sent[ws] =>
            /\ Len(sent'[ws]) = Len(sent[ws]) + 1
            /\ SubSeq(sent'[ws], 1, Len(sent[ws])) = sent[ws]
            /\ pc[ws] = "reply" =>
                  sent'[ws][Len(sent'[ws])]
                      = TurnText(History(ws)[Len(History(ws))])
            /\ pc[ws] = "farewell" =>
                  /\ sent'[ws][Len(sent'[ws])] = FAREWELL
                  /\ active_connections' = active_connections

C20_TranscriptMatchesHistory == [] C20_State /\ [][C20_Step]_vars

\* A complete conversation: greeting, two replies, farewell.
C20_Witness ==
    \E ws \in Conns :
        /\ ended[ws] = "exit" /\ pc[ws] = "done"
        /\ Len(sent[ws]) = 4
        /\ sent[ws][2] = <<"H", "i">>
        /\ sent[ws][3] = TECHNICAL_ISSUE
        /\ sent[ws][4] = FAREWELL

\* --------------------------------------------------------------------- C21
\* The handlers that have been entered and have not finished.
Running == {ws \in Conns : pc[ws] \notin {"start", "done"}}

\* C21: the store holds no orphaned session: once a connection's handler
\* has finished, on whatever path (a failed greeting send in connect()
\* included), its session is not in the store, so the store never holds
\* more sessions than there are handlers still running.
C21_NoOrphanedSession ==
    /\ \A ws \in Conns : pc[ws] = "done" => ~Stored(ws)
    /\ DOMAIN active_connections \subseteq Running
    /\ Cardinality(DOMAIN active_connections) <= Cardinality(Running)

====
